---- MODULE Spec2Model ----
(***************************************************************************)
(* A model of iolib::FileStream, of the free functions read_file,          *)
(* write_file, append_file and read_lines, and of the input side of        *)
(* iolib::Console, of c20stdiolib.hpp.                                     *)
(*                                                                         *)
(* A FileStream wraps one std::fstream.  The fstream is modelled by its    *)
(* iostate (eofbit, and one flag `fail` standing for "failbit or badbit":  *)
(* the class only ever tests operator!, i.e. fail(), and never clears a    *)
(* flag itself) and by its filebuf: the handle it holds, the open mode,    *)
(* the file position and the output that is still buffered.  The file      *)
(* system is a map from paths to byte sequences.                           *)
(***************************************************************************)
EXTENDS Integers, Sequences, FiniteSets, TLC

-----------------------------------------------------------------------------
(* Bounds of the model *)

MaxLen == 1        \* longest content handed to one write / held by an initial file
MaxFile == 3       \* files are not grown beyond this many bytes
MaxSeek == 2       \* largest offset handed to seek
MaxText == 2       \* longest text file that is read for numbers
MaxInput == 4      \* longest console input

(* Program constants *)

NUL == 0           \* '\0', the fill byte of std::string(size, '\0')
LF == 10           \* '\n', the delimiter std::getline stops at
IntMax == 2147483647   \* the largest int, the T of read<T> here

Bytes == {NUL, LF, 120}          \* 120 is 'x', an ordinary byte
Paths == {"p"}
Inst == {"a", "b"}                \* two FileStream objects, so that one can be moved into the other
FileModes == {"Read", "Write", "Append", "ReadWrite"}

RECURSIVE SeqsUpTo(_)
SeqsUpTo(n) ==
    IF n = 0 THEN {<<>>}
    ELSE LET shorter == SeqsUpTo(n - 1)
         IN  shorter \cup {Append(s, b) : s \in {t \in shorter : Len(t) = n - 1}, b \in Bytes}

Contents == SeqsUpTo(MaxLen)

NoFile == << -1 >>     \* the path names no file
None == << -1 >>       \* std::nullopt
NoPos == -1            \* pos_type(-1)

VARIABLES
    disk,      \* path -> bytes of the file, or NoFile
    open,      \* the OS handles that are open
    twice,     \* some handle was closed a second time
    inst,      \* FileStream objects: alive flag and the std::fstream member
    ret,       \* the last call: what was called and what came back
    log,       \* what was called before the last call, as far as a property needs it
    cin        \* std::cin: its iostate and the input not yet consumed

vars == <<disk, open, twice, inst, ret, log, cin>>

-----------------------------------------------------------------------------
(* std::basic_filebuf *)

Min(a, b) == IF a < b THEN a ELSE b
Max(a, b) == IF a > b THEN a ELSE b

ClosedBuf ==
    [h |-> 0, path |-> "", in |-> FALSE, out |-> FALSE, app |-> FALSE,
     pos |-> 0, wbuf |-> <<>>]

\* the bytes of a file after `bytes` are written at offset `at`; a gap
\* between the old end and `at` reads as NUL bytes
WriteAt(data, at, bytes) ==
    [k \in 1..Max(Len(data), at + Len(bytes)) |->
        IF k > at /\ k <= at + Len(bytes) THEN bytes[k - at]
        ELSE IF k <= Len(data) THEN data[k]
        ELSE NUL]

\* the buffered output written at the file position also under ios::app
filebuf_sync_at_pos(fb, d) ==
    IF fb.h = 0 \/ fb.wbuf = <<>> THEN [fb |-> fb, disk |-> d]
    ELSE [fb   |-> [fb EXCEPT !.pos = fb.pos + Len(fb.wbuf), !.wbuf = <<>>],
          disk |-> [d EXCEPT ![fb.path] = WriteAt(d[fb.path], fb.pos, fb.wbuf)]]

\* write the buffered output to the file; with ios::app every write lands
\* at the current end of the file
filebuf_sync(fb, d) ==
    IF fb.h = 0 \/ fb.wbuf = <<>> THEN [fb |-> fb, disk |-> d]
    ELSE LET at == IF fb.app THEN Len(d[fb.path]) ELSE fb.pos
         IN  [fb   |-> [fb EXCEPT !.pos = at + Len(fb.wbuf), !.wbuf = <<>>],
              disk |-> [d EXCEPT ![fb.path] = WriteAt(d[fb.path], at, fb.wbuf)]]

\* basic_filebuf::close: flush, release the handle
filebuf_close(fb, w) ==
    IF fb.h = 0 THEN [fb |-> fb, w |-> w, ok |-> FALSE]
    ELSE LET f == filebuf_sync(fb, w.disk)
         IN  [fb |-> ClosedBuf,
              w  |-> [disk |-> f.disk, open |-> w.open \ {fb.h},
                      twice |-> w.twice \/ fb.h \notin w.open],
              ok |-> TRUE]

\* the handle the OS hands out next
NewHandle(w) == CHOOSE h \in 1..(Cardinality(w.open) + 1) : h \notin w.open

\* basic_filebuf::open
filebuf_open(path, fl, w) ==
    LET exists == w.disk[path] # NoFile
        ok     == fl.in => exists
        d      == IF ok /\ (fl.trunc \/ ~exists)
                  THEN [w.disk EXCEPT ![path] = <<>>] ELSE w.disk
    IN  IF ~ok THEN [fb |-> ClosedBuf, w |-> w]
        ELSE [fb |-> [h |-> NewHandle(w), path |-> path,
                      in |-> fl.in, out |-> fl.out, app |-> fl.app,
                      pos |-> IF fl.app THEN Len(d[path]) ELSE 0,
                      wbuf |-> <<>>],
              w  |-> [w EXCEPT !.disk = d, !.open = @ \cup {NewHandle(w)}]]

\* basic_filebuf::seekpos / seekoff(0, end): flush, then reposition
filebuf_seek(fb, d, toEnd, n) ==
    IF fb.h = 0 THEN [fb |-> fb, disk |-> d, ok |-> FALSE]
    ELSE LET f == filebuf_sync(fb, d)
         IN  [fb   |-> [f.fb EXCEPT !.pos = IF toEnd THEN Len(f.disk[fb.path]) ELSE n],
              disk |-> f.disk, ok |-> TRUE]

\* basic_filebuf::seekoff(0, cur)
filebuf_tell(fb) == IF fb.h = 0 THEN NoPos ELSE fb.pos + Len(fb.wbuf)

\* the bytes from the file position to the end of the file
Rest(fb, d) ==
    LET data == d[fb.path]
    IN  IF fb.pos >= Len(data) THEN <<>> ELSE SubSeq(data, fb.pos + 1, Len(data))

Readable(fb) == fb.h # 0 /\ fb.in
Writable(fb) == fb.h # 0 /\ fb.out

\* basic_filebuf::xsgetn
filebuf_sgetn(fb, d, n) ==
    IF ~Readable(fb) THEN [fb |-> fb, disk |-> d, got |-> <<>>]
    ELSE LET f   == filebuf_sync(fb, d)
             got == SubSeq(Rest(f.fb, f.disk), 1, Min(n, Len(Rest(f.fb, f.disk))))
         IN  [fb |-> [f.fb EXCEPT !.pos = @ + Len(got)], disk |-> f.disk, got |-> got]

\* basic_filebuf::xsputn: the bytes go to the put area
filebuf_sputn(fb, v) ==
    IF ~Writable(fb) THEN [fb |-> fb, n |-> 0]
    ELSE [fb |-> [fb EXCEPT !.wbuf = @ \o v], n |-> Len(v)]

-----------------------------------------------------------------------------
(* std::basic_fstream: iostate and the stream operations the class uses *)

good(s) == ~s.eof /\ ~s.fail
setfail(s) == [s EXCEPT !.fail = TRUE]

\* istream::sentry(is, noskipws = true)
istream_sentry(s) == IF good(s) THEN s ELSE setfail(s)

\* seekg: clears eofbit, then repositions unless the stream has failed
seekg(s, d, toEnd, n) ==
    LET s1 == istream_sentry([s EXCEPT !.eof = FALSE])
    IN  IF s1.fail THEN [s |-> s1, disk |-> d]
        ELSE LET f == filebuf_seek(s1.fb, d, toEnd, n)
             IN  [s |-> [s1 EXCEPT !.fb = f.fb, !.fail = ~f.ok], disk |-> f.disk]

\* seekp
seekp(s, d, n) ==
    IF s.fail THEN [s |-> s, disk |-> d]
    ELSE LET f == filebuf_seek(s.fb, d, FALSE, n)
         IN  [s |-> [s EXCEPT !.fb = f.fb, !.fail = ~f.ok], disk |-> f.disk]

\* tellg
tellg(s) ==
    LET s1 == istream_sentry(s)
    IN  [s |-> s1, pos |-> IF s1.fail THEN NoPos ELSE filebuf_tell(s1.fb)]

\* index of the first LF of r, 0 when r has none
RECURSIVE FirstLF(_, _)
FirstLF(r, k) ==
    IF k > Len(r) THEN 0 ELSE IF r[k] = LF THEN k ELSE FirstLF(r, k + 1)

\* getline that reports failure whenever it meets the end of the file, also
\* after extracting the bytes of a last line without delimiter
getline_eof_fails(s, d) ==
    IF ~good(s) THEN [s |-> setfail(s), disk |-> d, line |-> <<>>]
    ELSE IF ~Readable(s.fb)
         THEN [s |-> [s EXCEPT !.eof = TRUE, !.fail = TRUE], disk |-> d, line |-> <<>>]
    ELSE LET f == filebuf_sync(s.fb, d)
             r == Rest(f.fb, f.disk)
             k == FirstLF(r, 1)
         IN  IF k > 0
             THEN [s |-> [s EXCEPT !.fb = [f.fb EXCEPT !.pos = @ + k]],
                   disk |-> f.disk, line |-> SubSeq(r, 1, k - 1)]
             ELSE [s |-> [s EXCEPT !.fb = [f.fb EXCEPT !.pos = @ + Len(r)],
                                   !.eof = TRUE, !.fail = TRUE],
                   disk |-> f.disk, line |-> r]

\* std::getline(stream, line): the line without its delimiter
getline(s, d) ==
    IF ~good(s) THEN [s |-> setfail(s), disk |-> d, line |-> <<>>]
    ELSE IF ~Readable(s.fb)
         THEN [s |-> [s EXCEPT !.eof = TRUE, !.fail = TRUE], disk |-> d, line |-> <<>>]
    ELSE LET f == filebuf_sync(s.fb, d)
             r == Rest(f.fb, f.disk)
             k == FirstLF(r, 1)
         IN  IF k > 0
             THEN [s |-> [s EXCEPT !.fb = [f.fb EXCEPT !.pos = @ + k]],
                   disk |-> f.disk, line |-> SubSeq(r, 1, k - 1)]
             ELSE [s |-> [s EXCEPT !.fb = [f.fb EXCEPT !.pos = @ + Len(r)],
                                   !.eof = TRUE, !.fail = (r = <<>>)],
                   disk |-> f.disk, line |-> r]

\* std::isspace in the "C" locale
IsSpace(b) == b \in {9, 10, 11, 12, 13, 32}
IsDigit(b) == b \in 48..57

\* the number of white-space bytes of r from index k on
RECURSIVE SkipWs(_, _)
SkipWs(r, k) ==
    IF k > Len(r) \/ ~IsSpace(r[k]) THEN 0 ELSE 1 + SkipWs(r, k + 1)

\* the number of digits of r from index k on
RECURSIVE Digits(_, _)
Digits(r, k) ==
    IF k > Len(r) \/ ~IsDigit(r[k]) THEN 0 ELSE 1 + Digits(r, k + 1)

\* the int the n digits of r from index k on denote, after acc, negated if
\* neg; over: the number is out of the range of int, val is then the nearest
\* int
RECURSIVE Number(_, _, _, _, _)
Number(r, k, n, neg, acc) ==
    IF n = 0 THEN [val |-> acc, over |-> FALSE]
    ELSE LET d   == r[k] - 48
             lim == IntMax \div 10
         IN  IF \/ acc > lim \/ acc < -lim
                \/ acc = lim /\ d > IntMax % 10
                \/ acc = -lim /\ d > (IntMax % 10) + 1
             THEN [val |-> IF neg THEN -IntMax - 1 ELSE IntMax, over |-> TRUE]
             ELSE Number(r, k + 1, n - 1, neg, acc * 10 + (IF neg THEN -d ELSE d))

\* num_get<char>::get for int on the bytes r that are left: white space is
\* skipped by the sentry, then an optional sign and the digits are taken.
\* used: the bytes consumed; eof: the end of the input was met; ok: a value
\* in the range of int was read
num_get(r) ==
    LET w    == SkipWs(r, 1)
        sign == IF w < Len(r) /\ r[w + 1] \in {43, 45} THEN 1 ELSE 0
        n    == Digits(r, w + sign + 1)
        x    == Number(r, w + sign + 1, n, sign = 1 /\ r[w + 1] = 45, 0)
    IN  IF w = Len(r) THEN [used |-> w, ok |-> FALSE, eof |-> TRUE, val |-> 0]
        ELSE IF n = 0
             THEN [used |-> w + sign, ok |-> FALSE, eof |-> w + sign = Len(r), val |-> 0]
        ELSE [used |-> w + sign + n, ok |-> ~x.over, eof |-> w + sign + n = Len(r),
              val  |-> x.val]

\* operator>>(istream, int&): eofbit when the end of the file is met,
\* failbit when no value is read
istream_extract(s, d) ==
    IF ~good(s) THEN [s |-> setfail(s), disk |-> d, val |-> 0]
    ELSE IF ~Readable(s.fb)
         THEN [s |-> [s EXCEPT !.eof = TRUE, !.fail = TRUE], disk |-> d, val |-> 0]
    ELSE LET f == filebuf_sync(s.fb, d)
             x == num_get(Rest(f.fb, f.disk))
         IN  [s |-> [s EXCEPT !.fb = [f.fb EXCEPT !.pos = @ + x.used],
                              !.eof = x.eof, !.fail = ~x.ok],
              disk |-> f.disk, val |-> x.val]

\* istream::read(buf, n): what was read, eofbit|failbit when short
istream_read(s, d, n) ==
    IF ~good(s) THEN [s |-> setfail(s), disk |-> d, got |-> <<>>]
    ELSE LET f == filebuf_sgetn(s.fb, d, n)
         IN  [s |-> [s EXCEPT !.fb = f.fb,
                              !.eof = Len(f.got) < n, !.fail = Len(f.got) < n],
              disk |-> f.disk, got |-> f.got]

\* operator<<(ostream, std::string): all bytes of v, badbit when the buffer
\* takes fewer
ostream_insert(s, v) ==
    IF ~good(s) THEN setfail(s)
    ELSE LET f == filebuf_sputn(s.fb, v)
         IN  [s EXCEPT !.fb = f.fb, !.fail = f.n # Len(v)]

\* basic_fstream::close
fstream_close(s, w) ==
    LET c == filebuf_close(s.fb, w)
    IN  [s |-> [s EXCEPT !.fb = c.fb, !.fail = @ \/ ~c.ok], w |-> c.w]

-----------------------------------------------------------------------------
(* class FileStream *)

\* Append opened with ios::trunc in place of ios::app
ModeFlags_AppendTruncates(mode) ==
    CASE mode = "Read"      -> [in |-> TRUE,  out |-> FALSE, trunc |-> FALSE, app |-> FALSE]
      [] mode = "Write"     -> [in |-> FALSE, out |-> TRUE,  trunc |-> TRUE,  app |-> FALSE]
      [] mode = "Append"    -> [in |-> FALSE, out |-> TRUE,  trunc |-> TRUE,  app |-> FALSE]
      [] mode = "ReadWrite" -> [in |-> TRUE,  out |-> TRUE,  trunc |-> FALSE, app |-> FALSE]

\* Write opened without ios::trunc
ModeFlags_WriteKeeps(mode) ==
    CASE mode = "Read"      -> [in |-> TRUE,  out |-> FALSE, trunc |-> FALSE, app |-> FALSE]
      [] mode = "Write"     -> [in |-> FALSE, out |-> TRUE,  trunc |-> FALSE, app |-> FALSE]
      [] mode = "Append"    -> [in |-> FALSE, out |-> TRUE,  trunc |-> FALSE, app |-> TRUE]
      [] mode = "ReadWrite" -> [in |-> TRUE,  out |-> TRUE,  trunc |-> FALSE, app |-> FALSE]

\* ReadWrite opened with ios::trunc, as Write is
ModeFlags_ReadWriteTruncates(mode) ==
    CASE mode = "Read"      -> [in |-> TRUE,  out |-> FALSE, trunc |-> FALSE, app |-> FALSE]
      [] mode = "Write"     -> [in |-> FALSE, out |-> TRUE,  trunc |-> TRUE,  app |-> FALSE]
      [] mode = "Append"    -> [in |-> FALSE, out |-> TRUE,  trunc |-> FALSE, app |-> TRUE]
      [] mode = "ReadWrite" -> [in |-> TRUE,  out |-> TRUE,  trunc |-> TRUE,  app |-> FALSE]

\* the std::ios::openmode open_stream builds for each FileMode
ModeFlags(mode) ==
    CASE mode = "Read"      -> [in |-> TRUE,  out |-> FALSE, trunc |-> FALSE, app |-> FALSE]
      [] mode = "Write"     -> [in |-> FALSE, out |-> TRUE,  trunc |-> TRUE,  app |-> FALSE]
      [] mode = "Append"    -> [in |-> FALSE, out |-> TRUE,  trunc |-> FALSE, app |-> TRUE]
      [] mode = "ReadWrite" -> [in |-> TRUE,  out |-> TRUE,  trunc |-> FALSE, app |-> FALSE]

is_open(s) == s.fb.h # 0

\* open_stream without the is_open check: it never throws
open_stream_unchecked(path, mode, w) ==
    LET o      == filebuf_open(path, ModeFlags(mode), w)
        stream == [eof |-> FALSE, fail |-> o.fb.h = 0, fb |-> o.fb]
    IN  [threw |-> FALSE, s |-> stream, w |-> o.w]

\* std::fstream stream(path, flags); throws when the stream is not open
open_stream(path, mode, w) ==
    LET o      == filebuf_open(path, ModeFlags(mode), w)
        stream == [eof |-> FALSE, fail |-> o.fb.h = 0, fb |-> o.fb]
    IN  [threw |-> ~is_open(stream), s |-> stream, w |-> o.w]

\* read_all without the seek back to the start: it reads from the end
read_all_no_rewind(s, d) ==
    IF s.fail THEN [threw |-> TRUE, s |-> s, disk |-> d, val |-> <<>>]
    ELSE LET a    == seekg(s, d, TRUE, 0)
             size == tellg(a.s)
         IN  IF size.pos <= 0
             THEN [threw |-> FALSE, s |-> size.s, disk |-> a.disk, val |-> <<>>]
             ELSE LET r == istream_read(size.s, a.disk, size.pos)
                  IN  [threw |-> FALSE, s |-> r.s, disk |-> r.disk,
                       val |-> r.got \o [k \in 1..(size.pos - Len(r.got)) |-> NUL]]

\* read_all that puts the cursor back at the start once it has the content
read_all_rewound(s, d) ==
    IF s.fail THEN [threw |-> TRUE, s |-> s, disk |-> d, val |-> <<>>]
    ELSE LET a    == seekg(s, d, TRUE, 0)
             size == tellg(a.s)
             b    == seekg(size.s, a.disk, FALSE, 0)
         IN  IF size.pos <= 0
             THEN [threw |-> FALSE, s |-> b.s, disk |-> b.disk, val |-> <<>>]
             ELSE LET r == istream_read(b.s, b.disk, size.pos)
                      c == seekg(r.s, r.disk, FALSE, 0)
                  IN  [threw |-> FALSE, s |-> c.s, disk |-> c.disk,
                       val |-> r.got \o [k \in 1..(size.pos - Len(r.got)) |-> NUL]]

\* read_all
read_all(s, d) ==
    IF s.fail THEN [threw |-> TRUE, s |-> s, disk |-> d, val |-> <<>>]
    ELSE LET a    == seekg(s, d, TRUE, 0)
             size == tellg(a.s)
             b    == seekg(size.s, a.disk, FALSE, 0)
         IN  IF size.pos <= 0
             THEN [threw |-> FALSE, s |-> b.s, disk |-> b.disk, val |-> <<>>]
             ELSE LET r == istream_read(b.s, b.disk, size.pos)
                  IN  [threw |-> FALSE, s |-> r.s, disk |-> r.disk,
                       val |-> r.got \o [k \in 1..(size.pos - Len(r.got)) |-> NUL]]

\* read_line that hands back the line whether or not getline succeeded
read_line_unchecked(s, d) ==
    IF s.fail THEN [has |-> FALSE, s |-> s, disk |-> d, val |-> <<>>]
    ELSE LET g == getline(s, d)
         IN  [has |-> TRUE, s |-> g.s, disk |-> g.disk, val |-> g.line]

\* read_line
read_line(s, d) ==
    IF s.fail THEN [has |-> FALSE, s |-> s, disk |-> d, val |-> <<>>]
    ELSE LET g == getline(s, d)
         IN  IF g.s.fail THEN [has |-> FALSE, s |-> g.s, disk |-> g.disk, val |-> <<>>]
             ELSE [has |-> TRUE, s |-> g.s, disk |-> g.disk, val |-> g.line]

\* read<int>
read(s, d) ==
    LET x == istream_extract(s, d)
    IN  IF x.s.fail THEN [has |-> FALSE, s |-> x.s, disk |-> x.disk, val |-> 0]
        ELSE [has |-> TRUE, s |-> x.s, disk |-> x.disk, val |-> x.val]

\* write handing the bytes over as a C string: they end at the first NUL
write_c_str(s, v) ==
    IF s.fail THEN [threw |-> TRUE, s |-> s]
    ELSE LET k == CHOOSE n \in 0..Len(v) :
                     /\ \A m \in 1..n : v[m] # NUL
                     /\ n < Len(v) => v[n + 1] = NUL
         IN  [threw |-> FALSE, s |-> ostream_insert(s, SubSeq(v, 1, k))]

\* write<std::string>
write(s, v) ==
    IF s.fail THEN [threw |-> TRUE, s |-> s]
    ELSE [threw |-> FALSE, s |-> ostream_insert(s, v)]

\* seek that clears the error state before it repositions
seek_clears(s, d, n) ==
    LET g == seekg([s EXCEPT !.eof = FALSE, !.fail = FALSE], d, FALSE, n)
    IN  seekp(g.s, g.disk, n)

\* seek
seek(s, d, n) ==
    LET g == seekg(s, d, FALSE, n)
    IN  seekp(g.s, g.disk, n)

\* tell
tell(s) == tellg(s)

\* ~FileStream, then the destructor of the member stream_
destroy(s, w) ==
    LET c == IF is_open(s) THEN fstream_close(s, w) ELSE [s |-> s, w |-> w]
    IN  filebuf_close(c.s.fb, c.w).w

\* a move that duplicates the handle: the source keeps it, without the
\* buffered output
moved_from_dup(st) == [st EXCEPT !.fb.wbuf = <<>>]

\* a move that copies: the source keeps what it held
moved_from_keeps(st) == st

\* the stream a FileStream is left with once its stream_ was moved from: it
\* holds no file; st is the iostate the library leaves it with
moved_from(st) == [eof |-> st.eof, fail |-> st.fail, fb |-> ClosedBuf]

\* a move constructor that leaves stream_ default-constructed
move_construct_empty(other) == [eof |-> FALSE, fail |-> FALSE, fb |-> ClosedBuf]

\* FileStream(FileStream&& other): what the new object holds
move_construct(other) == other

\* a move assignment that overwrites what the destination held without
\* closing it
move_assign_leaks(s, other, w) == [s |-> other, w |-> w]

\* operator=(FileStream&& other), this != &other: close, then take other's
move_assign(s, other, w) ==
    LET c == IF is_open(s) THEN fstream_close(s, w) ELSE [s |-> s, w |-> w]
        m == filebuf_close(c.s.fb, c.w)
    IN  [s |-> other, w |-> m.w]

-----------------------------------------------------------------------------
(* class Console: std::cin *)

cin_good(c) == ~c.eof /\ ~c.fail

\* std::getline(std::cin, line)
cin_getline(c) ==
    IF ~cin_good(c) THEN [c |-> [c EXCEPT !.fail = TRUE], line |-> <<>>]
    ELSE LET k == FirstLF(c.in, 1)
         IN  IF k > 0
             THEN [c |-> [c EXCEPT !.in = SubSeq(c.in, k + 1, Len(c.in))],
                   line |-> SubSeq(c.in, 1, k - 1)]
             ELSE [c |-> [in |-> <<>>, eof |-> TRUE, fail |-> c.in = <<>>],
                   line |-> c.in]

\* std::cin >> value, for an int
cin_extract(c) ==
    IF ~cin_good(c) THEN [c |-> [c EXCEPT !.fail = TRUE], val |-> 0]
    ELSE LET x == num_get(c.in)
         IN  [c |-> [in |-> SubSeq(c.in, x.used + 1, Len(c.in)),
                     eof |-> x.eof, fail |-> ~x.ok],
              val |-> x.val]

\* std::cin.ignore() with its default count: one byte is dropped
cin_ignore_one(c) ==
    IF ~cin_good(c) THEN [c EXCEPT !.fail = TRUE]
    ELSE IF c.in = <<>> THEN [c EXCEPT !.eof = TRUE]
    ELSE [c EXCEPT !.in = Tail(c.in)]

\* std::cin.ignore(numeric_limits<streamsize>::max(), '\n'): everything up to
\* and including the next LF is dropped; eofbit when there is none
cin_ignore(c) ==
    IF ~cin_good(c) THEN [c EXCEPT !.fail = TRUE]
    ELSE LET k == FirstLF(c.in, 1)
         IN  IF k > 0 THEN [c EXCEPT !.in = SubSeq(c.in, k + 1, Len(c.in))]
             ELSE [c EXCEPT !.in = <<>>, !.eof = TRUE]

\* Console::read_line
Console_read_line(c) ==
    LET g == cin_getline(c)
    IN  [threw |-> g.c.fail, c |-> g.c, val |-> g.line]

\* Console::read<int>
Console_read(c) ==
    LET x == cin_extract(c)
    IN  IF x.c.fail THEN [threw |-> TRUE, c |-> x.c, val |-> 0]
        ELSE [threw |-> FALSE, c |-> cin_ignore(x.c), val |-> x.val]

-----------------------------------------------------------------------------
(* free functions *)

\* read_file
read_file(path, w) ==
    LET file == open_stream(path, "Read", w)
    IN  IF file.threw THEN [threw |-> TRUE, val |-> <<>>, w |-> file.w]
        ELSE LET r == read_all(file.s, file.w.disk)
             IN  [threw |-> r.threw, val |-> r.val,
                  w |-> destroy(r.s, [file.w EXCEPT !.disk = r.disk])]

\* the body shared by write_file and append_file
write_with(path, mode, content, w) ==
    LET file == open_stream(path, mode, w)
    IN  IF file.threw THEN [threw |-> TRUE, val |-> <<>>, w |-> file.w]
        ELSE LET r == write(file.s, content)
             IN  [threw |-> r.threw, val |-> <<>>, w |-> destroy(r.s, file.w)]

\* write_file
write_file(path, content, w) == write_with(path, "Write", content, w)

\* append_file
append_file(path, content, w) == write_with(path, "Append", content, w)

\* the loop of read_lines
RECURSIVE collect_lines(_, _, _)
collect_lines(s, d, lines) ==
    LET line == read_line(s, d)
    IN  IF line.has THEN collect_lines(line.s, line.disk, Append(lines, line.val))
        ELSE [s |-> line.s, disk |-> line.disk, lines |-> lines]

\* read_lines
read_lines(path, w) ==
    LET file == open_stream(path, "Read", w)
    IN  IF file.threw THEN [threw |-> TRUE, val |-> <<>>, w |-> file.w]
        ELSE LET r == collect_lines(file.s, file.w.disk, <<>>)
             IN  [threw |-> FALSE, val |-> r.lines,
                  w |-> destroy(r.s, [file.w EXCEPT !.disk = r.disk])]

-----------------------------------------------------------------------------
(* The state machine *)

World == [disk |-> disk, open |-> open, twice |-> twice]

SetWorld(w) == disk' = w.disk /\ open' = w.open /\ twice' = w.twice

Dead == [alive |-> FALSE, s |-> [eof |-> FALSE, fail |-> FALSE, fb |-> ClosedBuf]]

Call(op, who, path, mode, arg, threw, val, old) ==
    [op |-> op, who |-> who, path |-> path, mode |-> mode, arg |-> arg,
     threw |-> threw, val |-> val, old |-> old]

RECURSIVE Pending(_, _)
\* bytes buffered for path p by the objects in I
Pending(p, I) ==
    IF I = {} THEN 0
    ELSE LET i == CHOOSE j \in I : TRUE
         IN  (IF inst[i].s.fb.path = p THEN Len(inst[i].s.fb.wbuf) ELSE 0)
             + Pending(p, I \ {i})

\* no file is, or is about to be, longer than MaxFile
Capped ==
    /\ \A p \in Paths :
          (IF disk[p] = NoFile THEN 0 ELSE Len(disk[p])) + Pending(p, Inst) <= MaxFile
    /\ \A i \in Inst : inst[i].s.fb.pos + Len(inst[i].s.fb.wbuf) <= MaxFile

Init ==
    /\ disk \in [Paths -> {NoFile} \cup Contents]
    /\ open = {}
    /\ twice = FALSE
    /\ inst = [i \in Inst |-> Dead]
    /\ ret = Call("none", "", "", "", <<>>, FALSE, <<>>, <<>>)
    /\ log = <<>>
    /\ cin = [eof |-> FALSE, fail |-> FALSE, in |-> <<>>]

\* FileStream file(path, mode)
Construct(i, p, m) ==
    /\ ~inst[i].alive
    /\ LET o == open_stream(p, m, World)
       IN  /\ SetWorld(o.w)
           /\ inst' = IF o.threw THEN inst
                      ELSE [inst EXCEPT ![i] = [alive |-> TRUE, s |-> o.s]]
           /\ ret' = Call("open", i, p, m, <<>>, o.threw, <<>>, disk[p])

\* the object goes out of scope
Destroy(i) ==
    /\ inst[i].alive
    /\ LET w == destroy(inst[i].s, World)
       IN  /\ SetWorld(w)
           /\ inst' = [inst EXCEPT ![i] = Dead]
           /\ ret' = Call("destroy", i, "", "", <<>>, FALSE, <<>>, <<>>)

\* FileStream i(std::move(j)); st is the iostate left in j, which the
\* library does not specify: j's own, or that of a fresh stream
MoveConstruct(i, j, st) ==
    /\ i # j /\ ~inst[i].alive /\ inst[j].alive
    /\ st \in {inst[j].s, Dead.s}
    /\ inst' = [inst EXCEPT ![i] = [alive |-> TRUE, s |-> move_construct(inst[j].s)],
                            ![j] = [alive |-> TRUE, s |-> moved_from(st)]]
    /\ ret' = Call("move", i, "", "", <<j>>, FALSE, <<>>, <<>>)
    /\ UNCHANGED <<disk, open, twice>>

\* i = std::move(j); st as above, or the iostate i had
MoveAssign(i, j, st) ==
    /\ inst[i].alive /\ inst[j].alive
    /\ st \in {inst[j].s, inst[i].s, Dead.s}
    /\ IF i = j
       THEN UNCHANGED <<disk, open, twice, inst>>
       ELSE LET m == move_assign(inst[i].s, inst[j].s, World)
            IN  /\ SetWorld(m.w)
                /\ inst' = [inst EXCEPT ![i] = [alive |-> TRUE, s |-> m.s],
                                        ![j] = [alive |-> TRUE, s |-> moved_from(st)]]
    /\ ret' = Call("assign", i, "", "", <<j>>, FALSE, <<>>, <<>>)

ReadAll(i) ==
    /\ inst[i].alive
    /\ LET r == read_all(inst[i].s, disk)
       IN  /\ disk' = r.disk
           /\ inst' = [inst EXCEPT ![i].s = r.s]
           /\ ret' = Call("read_all", i, "", "", <<>>, r.threw, r.val, <<>>)
    /\ UNCHANGED <<open, twice>>

ReadLine(i) ==
    /\ inst[i].alive
    /\ LET r == read_line(inst[i].s, disk)
       IN  /\ disk' = r.disk
           /\ inst' = [inst EXCEPT ![i].s = r.s]
           /\ ret' = Call("read_line", i, "", "", <<>>, FALSE,
                          IF r.has THEN r.val ELSE None, <<>>)
    /\ UNCHANGED <<open, twice>>

Read(i) ==
    /\ inst[i].alive
    /\ LET r == read(inst[i].s, disk)
       IN  /\ disk' = r.disk
           /\ inst' = [inst EXCEPT ![i].s = r.s]
           /\ ret' = Call("read", i, "", "", <<>>, FALSE,
                          IF r.has THEN <<r.val>> ELSE None, <<>>)
    /\ UNCHANGED <<open, twice>>

Write(i, v) ==
    /\ inst[i].alive
    /\ LET r == write(inst[i].s, v)
       IN  /\ inst' = [inst EXCEPT ![i].s = r.s]
           /\ ret' = Call("write", i, "", "", v, r.threw, <<>>, <<>>)
    /\ UNCHANGED <<disk, open, twice>>
    /\ Capped'

Seek(i, n) ==
    /\ inst[i].alive
    /\ LET r == seek(inst[i].s, disk, n)
       IN  /\ disk' = r.disk
           /\ inst' = [inst EXCEPT ![i].s = r.s]
           /\ ret' = Call("seek", i, "", "", <<n>>, FALSE, <<>>, <<>>)
    /\ UNCHANGED <<open, twice>>

Tell(i) ==
    /\ inst[i].alive
    /\ LET r == tell(inst[i].s)
       IN  /\ inst' = [inst EXCEPT ![i].s = r.s]
           /\ ret' = Call("tell", i, "", "", <<>>, FALSE, <<r.pos>>, <<>>)
    /\ UNCHANGED <<disk, open, twice>>

\* the put area is full: the filebuf writes it out
Overflow(i) ==
    /\ inst[i].alive
    /\ inst[i].s.fb.wbuf # <<>>
    /\ LET f == filebuf_sync(inst[i].s.fb, disk)
       IN  /\ disk' = f.disk
           /\ inst' = [inst EXCEPT ![i].s.fb = f.fb]
           /\ ret' = Call("overflow", i, "", "", <<>>, FALSE, <<>>, <<>>)
    /\ UNCHANGED <<open, twice>>

\* a free function returned r
Returned(op, p, arg, r) ==
    /\ SetWorld(r.w)
    /\ ret' = Call(op, "", p, "", arg, r.threw, r.val, disk[p])
    /\ UNCHANGED inst

ReadFile(p) == Returned("read_file", p, <<>>, read_file(p, World))
WriteFile(p, c) == Returned("write_file", p, c, write_file(p, c, World))
AppendFile(p, c) == Returned("append_file", p, c, append_file(p, c, World))
ReadLines(p) == Returned("read_lines", p, <<>>, read_lines(p, World))

\* the temporary FileStream(std::move(i)) is built and destroyed: i is left
\* moved from, with iostate st, and the temporary releases what i held
MoveOut(i, st) ==
    /\ inst[i].alive
    /\ st \in {inst[i].s, Dead.s}
    /\ SetWorld(destroy(move_construct(inst[i].s), World))
    /\ inst' = [inst EXCEPT ![i].s = moved_from(st)]
    /\ ret' = Call("move_out", i, "", "", <<>>, FALSE, <<>>, <<>>)

IoStates == {inst[i].s : i \in Inst} \cup {Dead.s}

\* the life of two objects: construction, moves, destruction, a write that
\* leaves output buffered (or fails), and the free functions
Next ==
    \/ \E i \in Inst, p \in Paths, m \in FileModes : Construct(i, p, m) /\ UNCHANGED <<log, cin>>
    \/ \E i \in Inst : Destroy(i) /\ UNCHANGED <<log, cin>>
    \/ \E i, j \in Inst, st \in IoStates : MoveConstruct(i, j, st) /\ UNCHANGED <<log, cin>>
    \/ \E i, j \in Inst, st \in IoStates : MoveAssign(i, j, st) /\ UNCHANGED <<log, cin>>
    \/ \E i \in Inst : inst[i].s.fb.wbuf = <<>> /\ Write(i, <<120>>) /\ UNCHANGED <<log, cin>>
    \/ \E p \in Paths : ReadFile(p) /\ UNCHANGED <<log, cin>>
    \/ \E p \in Paths : WriteFile(p, <<120>>) /\ UNCHANGED <<log, cin>>
    \/ \E p \in Paths : AppendFile(p, <<120>>) /\ Capped' /\ UNCHANGED <<log, cin>>
    \/ \E p \in Paths : ReadLines(p) /\ UNCHANGED <<log, cin>>

Spec == Init /\ [][Next]_vars

\* the life of two objects that are read from: construction, moves,
\* destruction and the calls that move the cursor or fail; write is handed
\* the empty string, which leaves nothing buffered
NextLife ==
    \/ \E i \in Inst, p \in Paths, m \in FileModes : Construct(i, p, m) /\ UNCHANGED <<log, cin>>
    \/ \E i \in Inst : Destroy(i) /\ UNCHANGED <<log, cin>>
    \/ \E i, j \in Inst, st \in IoStates : MoveConstruct(i, j, st) /\ UNCHANGED <<log, cin>>
    \/ \E i, j \in Inst, st \in IoStates : MoveAssign(i, j, st) /\ UNCHANGED <<log, cin>>
    \/ \E i \in Inst : ReadAll(i) /\ UNCHANGED <<log, cin>>
    \/ \E i \in Inst : ReadLine(i) /\ UNCHANGED <<log, cin>>
    \/ \E i \in Inst : Seek(i, 0) /\ UNCHANGED <<log, cin>>
    \/ \E i \in Inst : Tell(i) /\ UNCHANGED <<log, cin>>
    \/ \E i \in Inst : Write(i, <<>>) /\ UNCHANGED <<log, cin>>

SpecLife == Init /\ [][NextLife]_vars

\* every call on one object
NextIO ==
    \/ \E p \in Paths, m \in FileModes : Construct("a", p, m) /\ UNCHANGED <<log, cin>>
    \/ Destroy("a") /\ UNCHANGED <<log, cin>>
    \/ \E st \in IoStates : MoveOut("a", st) /\ UNCHANGED <<log, cin>>
    \/ ReadAll("a") /\ UNCHANGED <<log, cin>>
    \/ ReadLine("a") /\ UNCHANGED <<log, cin>>
    \/ \E v \in Contents : Write("a", v) /\ UNCHANGED <<log, cin>>
    \/ \E n \in 0..MaxSeek : Seek("a", n) /\ UNCHANGED <<log, cin>>
    \/ Tell("a") /\ UNCHANGED <<log, cin>>
    \/ Overflow("a") /\ UNCHANGED <<log, cin>>

SpecIO == Init /\ [][NextIO]_vars

\* text files: lines of digits and letters; 55 is '7'
TextBytes == {LF, 55, 120}

RECURSIVE TextsUpTo(_)
TextsUpTo(n) ==
    IF n = 0 THEN {<<>>}
    ELSE LET shorter == TextsUpTo(n - 1)
         IN  shorter \cup {Append(s, b) : s \in {t \in shorter : Len(t) = n - 1},
                                          b \in TextBytes}

InitText ==
    /\ disk \in [Paths -> {NoFile} \cup TextsUpTo(MaxText)]
    /\ open = {}
    /\ twice = FALSE
    /\ inst = [i \in Inst |-> Dead]
    /\ ret = Call("none", "", "", "", <<>>, FALSE, <<>>, <<>>)
    /\ log = <<>>
    /\ cin = [eof |-> FALSE, fail |-> FALSE, in |-> <<>>]

\* log[1] is the call that opened the object, for as long as nothing was
\* written through it and it was not moved from; log[2] is the first call
\* since then that was a tell, a read<T> or a read_line without a line
Traced ==
    log' = IF ret'.op = "open" THEN (IF ret'.threw THEN <<>> ELSE <<ret'>>)
           ELSE IF log = <<>> \/ ret'.op \in {"write", "move_out", "overflow"} THEN <<>>
           ELSE IF Len(log) = 1
                   /\ (\/ ret'.op \in {"tell", "read"}
                       \/ ret'.op = "read_line" /\ ret'.val = None)
                THEN <<log[1], [ret' EXCEPT !.val = <<>>]>>
           ELSE log

\* every call on one object that reads a text file
NextText ==
    \/ \E p \in Paths, m \in FileModes : Construct("a", p, m) /\ Traced /\ UNCHANGED cin
    \/ Destroy("a") /\ Traced /\ UNCHANGED cin
    \/ \E st \in IoStates : MoveOut("a", st) /\ Traced /\ UNCHANGED cin
    \/ ReadAll("a") /\ Traced /\ UNCHANGED cin
    \/ ReadLine("a") /\ Traced /\ UNCHANGED cin
    \/ Read("a") /\ Traced /\ UNCHANGED cin
    \/ \E v \in {<<>>, <<55>>} : Write("a", v) /\ Traced /\ UNCHANGED cin
    \/ \E n \in 0..MaxSeek : Seek("a", n) /\ Traced /\ UNCHANGED cin
    \/ Tell("a") /\ Traced /\ UNCHANGED cin
    \/ Overflow("a") /\ Traced /\ UNCHANGED cin

SpecText == InitText /\ [][NextText]_vars

\* what is typed at the console: 32 is ' ', 55 is '7'
Keys == {LF, 32, 55, 120}

RECURSIVE InputsUpTo(_)
InputsUpTo(n) ==
    IF n = 0 THEN {<<>>}
    ELSE LET shorter == InputsUpTo(n - 1)
         IN  shorter \cup {Append(s, b) : s \in {t \in shorter : Len(t) = n - 1},
                                          b \in Keys}

InitConsole ==
    /\ disk = [p \in Paths |-> NoFile]
    /\ open = {}
    /\ twice = FALSE
    /\ inst = [i \in Inst |-> Dead]
    /\ ret = Call("none", "", "", "", <<>>, FALSE, <<>>, <<>>)
    /\ log = <<>>
    /\ cin \in [eof : {FALSE}, fail : {FALSE}, in : InputsUpTo(MaxInput)]

\* Console::read_line(); old is the input that was left before the call
ConsoleReadLine ==
    /\ LET r == Console_read_line(cin)
       IN  /\ cin' = r.c
           /\ ret' = Call("Console::read_line", "", "", "", <<>>, r.threw, r.val, cin.in)
    /\ log' = <<ret>>
    /\ UNCHANGED <<disk, open, twice, inst>>

\* Console::read<int>()
ConsoleRead ==
    /\ LET r == Console_read(cin)
       IN  /\ cin' = r.c
           /\ ret' = Call("Console::read", "", "", "", <<>>, r.threw,
                          IF r.threw THEN <<>> ELSE <<r.val>>, cin.in)
    /\ log' = <<ret>>
    /\ UNCHANGED <<disk, open, twice, inst>>

\* the calls that read the console; log is the call before the last one
NextConsole ==
    \/ ConsoleReadLine
    \/ ConsoleRead

SpecConsole == InitConsole /\ [][NextConsole]_vars

\* the free functions alone; log keeps the writing calls made right before
\* the last call: the write_file, or the last two append_file in a row
Logged ==
    log' = IF ret.op = "write_file" THEN <<ret>>
           ELSE IF ret.op = "append_file"
                THEN IF log # <<>> /\ log[Len(log)].op = "append_file"
                     THEN <<log[Len(log)], ret>>
                     ELSE <<ret>>
           ELSE <<>>

NextFree ==
    \/ \E p \in Paths : ReadFile(p) /\ Logged /\ UNCHANGED cin
    \/ \E p \in Paths, c \in Contents : WriteFile(p, c) /\ Logged /\ UNCHANGED cin
    \/ \E p \in Paths, c \in Contents : AppendFile(p, c) /\ Capped' /\ Logged /\ UNCHANGED cin
    \/ \E p \in Paths : ReadLines(p) /\ Logged /\ UNCHANGED cin

SpecFree == Init /\ [][NextFree]_vars

-----------------------------------------------------------------------------
(* Properties *)

Base(c) == IF c = NoFile THEN <<>> ELSE c

\* C1: the read_file(p) that follows a write_file(p, content) returns exactly
\* content, whatever bytes content holds: the write is on disk once the
\* writing FileStream is gone
C1_RoundTrip ==
    (/\ ret.op = "read_file"
     /\ log # <<>>
     /\ log[Len(log)].op = "write_file"
     /\ ~log[Len(log)].threw
     /\ log[Len(log)].path = ret.path)
    => (~ret.threw /\ ret.val = log[Len(log)].arg)

C1_Witness ==
    /\ ret.op = "read_file" /\ ret.val = <<NUL>>
    /\ log # <<>>
    /\ log[Len(log)].op = "write_file" /\ log[Len(log)].arg = <<NUL>>
    /\ log[Len(log)].old = <<120, LF, 120>>

\* C2: after append_file(p, a) and then append_file(p, b), read_file(p)
\* returns what p held before the two calls (nothing if p did not exist),
\* then a, then b
C2_AppendConcat ==
    (/\ Len(log) = 2
     /\ log[1].op = "append_file" /\ log[2].op = "append_file"
     /\ ret.op = "read_file"
     /\ log[1].path = ret.path /\ log[2].path = ret.path)
    => (/\ ~log[1].threw /\ ~log[2].threw /\ ~ret.threw
        /\ ret.val = Base(log[1].old) \o log[1].arg \o log[2].arg)

C2_Witness ==
    /\ Len(log) = 2
    /\ log[1].op = "append_file" /\ log[1].old = <<LF>> /\ log[1].arg = <<120>>
    /\ log[2].op = "append_file" /\ log[2].arg = <<NUL>>
    /\ ret.op = "read_file" /\ ret.val = <<LF, 120, NUL>>

\* C3: after write_file(p, new) the file holds exactly new, whatever it held
\* before
C3_WriteTruncates ==
    ret.op = "write_file" => (~ret.threw /\ disk[ret.path] = ret.arg)

C3_Witness ==
    /\ ret.op = "write_file"
    /\ ret.old = <<120, 120, LF>> /\ ret.arg = <<120>>
    /\ disk[ret.path] = <<120>>

RECURSIVE Join(_)
\* the lines, each followed by its terminator
Join(lines) ==
    IF lines = <<>> THEN <<>> ELSE lines[1] \o <<LF>> \o Join(Tail(lines))

\* C4: read_lines(p) returns the lines of p in order, without terminators:
\* joined again with one terminator each they give the file, plus the
\* terminator the last line lacked; so nothing for an empty file and no extra
\* empty element after a final terminator
C4_ReadLines ==
    ret.op = "read_lines" /\ ret.old # NoFile
    => (/\ ~ret.threw
        /\ \A k \in 1..Len(ret.val) : \A n \in 1..Len(ret.val[k]) : ret.val[k][n] # LF
        /\ Join(ret.val) = IF ret.old = <<>> THEN <<>>
                           ELSE IF ret.old[Len(ret.old)] = LF THEN ret.old
                           ELSE ret.old \o <<LF>>)

C4_Witness ==
    /\ ret.op = "read_lines"
    /\ ret.old = <<LF, 120, LF>>
    /\ ret.val = << <<>>, <<120>> >>

\* C5: opening a path that names no file throws in Read mode, creating
\* neither a file nor a FileStream, and succeeds in Write mode, creating the
\* file and giving an open FileStream
C5_OpenMissing ==
    ret.op = "open" /\ ret.old = NoFile
    => (/\ ret.mode = "Read"
           => ret.threw /\ disk[ret.path] = NoFile /\ ~inst[ret.who].alive
        /\ ret.mode = "Write"
           => /\ ~ret.threw /\ disk[ret.path] = <<>>
              /\ inst[ret.who].alive /\ is_open(inst[ret.who].s))

C5_Witness ==
    /\ ret.op = "open" /\ ret.old = NoFile /\ ret.mode = "Write"
    /\ disk[ret.path] = <<>> /\ is_open(inst[ret.who].s)

\* C6: write throws on every call on a stream that is not open for writing,
\* the first one included, and then writes nothing
C6_WriteThrows ==
    [][ret'.op = "write" /\ ~Writable(inst[ret'.who].s.fb)
       => ret'.threw /\ disk' = disk]_vars

\* C7: read_all throws on every call on a stream that is not open for
\* reading
C7_ReadAllThrows ==
    [][ret'.op = "read_all" /\ ~Readable(inst[ret'.who].s.fb) => ret'.threw]_vars

\* C8: after a move construction, or a move assignment between two objects,
\* the source is not open and the destination is open exactly if the source
\* was
C8_MoveTransfers ==
    [][(ret'.op = "move" \/ (ret'.op = "assign" /\ ret'.arg[1] # ret'.who))
       => /\ ~is_open(inst'[ret'.arg[1]].s)
          /\ is_open(inst'[ret'.who].s) = is_open(inst[ret'.arg[1]].s)]_vars

C8_Witness ==
    /\ ret.op = "assign" /\ ret.arg[1] # ret.who
    /\ is_open(inst[ret.who].s) /\ ~is_open(inst[ret.arg[1]].s)
    /\ inst[ret.who].s.fb.wbuf # <<>>

\* C9: on an open FileStream, tell() right after seek(n) returns n
C9_SeekTell ==
    [][ret.op = "seek" /\ ret'.op = "tell" /\ is_open(inst[ret.who].s)
       => ret'.val = ret.arg]_vars

Owners(h) == {i \in Inst : inst[i].alive /\ inst[i].s.fb.h = h}

\* C10: every handle is closed exactly once: an open handle is held by a
\* living object (so none is left open by a free function or by the last
\* owner going away), an object holds only handles that are open, and no
\* handle was closed a second time
C10_ExactlyOnce ==
    /\ ~twice
    /\ \A h \in open : Owners(h) # {}
    /\ \A i \in Inst : is_open(inst[i].s) => inst[i].alive /\ inst[i].s.fb.h \in open

C10_Witness ==
    /\ ret.op = "destroy" /\ open = {} /\ ~twice
    /\ \E i \in Inst : inst[i].alive /\ ~is_open(inst[i].s)
    /\ disk["p"] = <<120>>

\* C11: no two FileStream objects that are open hold the same handle
C11_ExclusiveOwner ==
    \A i, j \in Inst :
        i # j /\ is_open(inst[i].s) /\ is_open(inst[j].s)
        => inst[i].s.fb.h # inst[j].s.fb.h

C11_Witness ==
    /\ ret.op = "move"
    /\ is_open(inst[ret.who].s) /\ inst[ret.who].s.fb.h \in open
    /\ inst[ret.arg[1]].alive /\ ~is_open(inst[ret.arg[1]].s)
    /\ Cardinality(open) = 1

\* C12 as claimed: a living object that is not open stays not open (the class
\* has no operation that opens an existing object anew)
C12_NoReopen ==
    [][\A i \in Inst :
          inst[i].alive /\ ~is_open(inst[i].s) /\ inst'[i].alive
          => ~is_open(inst'[i].s)]_vars

\* C12: a living object that is not open becomes open only as the destination
\* of a move assignment from another object that is open
C12_ReopenOnlyByAssign ==
    [][\A i \in Inst :
          inst[i].alive /\ ~is_open(inst[i].s) /\ inst'[i].alive /\ is_open(inst'[i].s)
          => /\ ret'.op = "assign" /\ ret'.who = i /\ ret'.arg[1] # i
             /\ is_open(inst[ret'.arg[1]].s)
             /\ inst'[i].s.fb.h = inst[ret'.arg[1]].s.fb.h]_vars

C12_Witness ==
    /\ ret.op = "assign" /\ ret.who # ret.arg[1]
    /\ is_open(inst[ret.who].s) /\ inst[ret.who].s.fb.h = 1
    /\ open = {1} /\ inst[ret.who].s.fb.wbuf = <<>>
    /\ inst[ret.arg[1]].alive

\* the file is at its end for the stream once its buffered output is written
AtEnd(s, d) ==
    LET f == filebuf_sync(s.fb, d) IN Rest(f.fb, f.disk) = <<>>

\* C13: read_line and read<T> never throw, and they return none on a stream
\* that is moved from, not open for reading, failed, at the end of the
\* file, or, for read<T>, before a token that is no number
C13_SoftFailure ==
    [][ret'.op \in {"read_line", "read"}
       => /\ ~ret'.threw
          /\ LET s == inst[ret'.who].s
             IN  (\/ ~is_open(s) \/ ~s.fb.in \/ s.fail \/ s.eof \/ AtEnd(s, disk)
                  \/ /\ ret'.op = "read"
                     /\ LET r == Rest(filebuf_sync(s.fb, disk).fb, filebuf_sync(s.fb, disk).disk)
                        IN  \A k \in 1..Len(r) :
                               (\A m \in 1..(k - 1) : IsSpace(r[m])) => ~IsDigit(r[k]))
                 => ret'.val = None]_vars

C13_Witness ==
    /\ ret.op = "read" /\ ret.val = None /\ ~ret.threw
    /\ is_open(inst[ret.who].s) /\ inst[ret.who].s.fb.in
    /\ inst[ret.who].s.fail /\ ~inst[ret.who].s.eof
    /\ inst[ret.who].s.fb.pos = 1
    /\ disk["p"] = <<LF, 120>>

\* C14: what was written through an Append-mode stream reaches the file
\* behind the last byte the file holds by then, wherever seek has put the
\* cursor: a step leaves the file as it is or adds the buffered output at
\* its end, and the output is there at the latest when the object is gone
C14_AppendAtEnd ==
    [][\A i \in Inst :
          inst[i].alive /\ is_open(inst[i].s) /\ inst[i].s.fb.app
          => LET fb == inst[i].s.fb
             IN  /\ \/ disk'[fb.path] = disk[fb.path]
                    \/ disk'[fb.path] = disk[fb.path] \o fb.wbuf
                 /\ ret'.op \in {"destroy", "overflow"} /\ ret'.who = i
                    => disk'[fb.path] = disk[fb.path] \o fb.wbuf]_vars

C14_Witness ==
    /\ ret.op = "write" /\ ~ret.threw /\ ret.arg = <<120>>
    /\ inst[ret.who].s.fb.app
    /\ inst[ret.who].s.fb.pos = 0 /\ inst[ret.who].s.fb.wbuf = <<120>>
    /\ disk["p"] = <<LF, NUL>>

\* the white space r begins with
Lead(r) ==
    CHOOSE w \in 0..Len(r) :
        /\ \A m \in 1..w : IsSpace(r[m])
        /\ w < Len(r) => ~IsSpace(r[w + 1])

\* what follows the line of r on which its first token stands
AfterTokenLine(r) ==
    IF \E k \in (Lead(r) + 1)..Len(r) : r[k] = LF
    THEN LET k == CHOOSE n \in (Lead(r) + 1)..Len(r) :
                     r[n] = LF /\ \A m \in (Lead(r) + 1)..(n - 1) : r[m] # LF
         IN  SubSeq(r, k + 1, Len(r))
    ELSE <<>>

\* the first line of r, which has one
FirstLine(r) ==
    IF \E k \in 1..Len(r) : r[k] = LF
    THEN SubSeq(r, 1, (CHOOSE n \in 1..Len(r) :
                          r[n] = LF /\ \A m \in 1..(n - 1) : r[m] # LF) - 1)
    ELSE r

\* C15: Console::read<T> returns a value exactly if the next token starts a
\* number, and throws if not; it then leaves as input what follows the line
\* the token stands on, so that a Console::read_line called next returns the
\* following line as it was typed
C15_ReadConsumesLine ==
    /\ ret.op = "Console::read"
       => LET r == ret.old
          IN  IF Lead(r) < Len(r) /\ IsDigit(r[Lead(r) + 1])
              THEN ~ret.threw /\ ret.val # <<>> /\ cin.in = AfterTokenLine(r)
              ELSE ret.threw /\ ret.val = <<>>
    /\ (/\ ret.op = "Console::read_line"
        /\ log # <<>> /\ log[1].op = "Console::read" /\ ~log[1].threw
        /\ AfterTokenLine(log[1].old) # <<>>)
       => ~ret.threw /\ ret.val = FirstLine(AfterTokenLine(log[1].old))

C15_Witness ==
    /\ ret.op = "Console::read_line" /\ ~ret.threw /\ ret.val = <<120>>
    /\ log # <<>> /\ log[1].op = "Console::read" /\ log[1].val = <<7>>
    /\ log[1].old = <<55, 32, LF, 120>>

\* C16: right after a read_all that returned, on a stream open for reading,
\* the cursor is at the end of the file: tell() returns the size of the file
\* and read_line() returns none
C16_ReadAllAtEnd ==
    [][(/\ ret.op = "read_all" /\ ~ret.threw
        /\ Readable(inst[ret.who].s.fb))
       => /\ ret'.op = "tell"
             => ret'.val = <<Len(disk[inst[ret.who].s.fb.path])>>
          /\ ret'.op = "read_line" => ret'.val = None]_vars

C16_Witness ==
    /\ ret.op = "read_all" /\ ~ret.threw /\ ret.val = <<120, LF>>
    /\ Readable(inst[ret.who].s.fb)
    /\ disk["p"] = <<120, LF>>
    /\ inst[ret.who].s.fb.pos = 2 /\ ~inst[ret.who].s.eof

\* C17: a file opened in Read or ReadWrite mode holds what it held before
\* the open for as long as nothing is written through the object, whatever
\* is read, sought or told and also once the object is gone; and opening a
\* path that names no file in one of these modes throws and creates nothing
C17_ReadingKeepsFile ==
    /\ (/\ log # <<>>
        /\ log[1].mode \in {"Read", "ReadWrite"})
       => disk[log[1].path] = log[1].old
    /\ (/\ ret.op = "open" /\ ret.mode \in {"Read", "ReadWrite"}
        /\ ret.old = NoFile)
       => ret.threw /\ disk[ret.path] = NoFile /\ ~inst[ret.who].alive

C17_Witness ==
    /\ ret.op = "destroy"
    /\ Len(log) = 2 /\ log[1].mode = "ReadWrite" /\ log[2].op = "read"
    /\ log[1].old = <<55, LF>> /\ disk["p"] = <<55, LF>>

C19_ReadAllRepeatable ==
    [][(/\ ret'.op = "read_all"
        /\ Len(log) = 1 /\ log[1].mode = "Read")
       => /\ ~ret'.threw
          /\ ret'.val = disk[log[1].path]
          /\ ret.op = "read_all" => ret'.val = ret.val]_vars

C19_Witness ==
    /\ ret.op = "read_all" /\ ~ret.threw /\ ret.val = <<LF, 55>>
    /\ Len(log) = 1 /\ log[1].mode = "Read"
    /\ inst[ret.who].s.fb.pos = 2 /\ ~inst[ret.who].s.eof

\* C20: a = std::move(b) between two objects closes the handle a held, with
\* a's buffered output written to its file, gives a what b held (handle,
\* cursor, buffered output) and leaves b not open, b's handle staying open;
\* a = std::move(a) changes nothing
C20_MoveAssign ==
    [][ret'.op = "assign"
       => LET a == ret'.who
              b == ret'.arg[1]
          IN  IF a = b THEN UNCHANGED <<disk, open, twice, inst>>
              ELSE /\ open' = open \ {inst[a].s.fb.h}
                   /\ is_open(inst[b].s) => inst[b].s.fb.h \in open'
                   /\ disk' = filebuf_sync(inst[a].s.fb, disk).disk
                   /\ inst'[a].s.fb = inst[b].s.fb
                   /\ ~is_open(inst'[b].s)]_vars

C20_Witness ==
    /\ ret.op = "assign" /\ ret.who # ret.arg[1]
    /\ inst[ret.who].s.fb.h = 2 /\ open = {2}
    /\ inst[ret.who].s.fb.in /\ ~inst[ret.who].s.fb.out
    /\ ~is_open(inst[ret.arg[1]].s)
    /\ disk["p"] = <<120>> /\ ~twice

====
